---- MODULE Spec2Model ----
(***************************************************************************)
(* A model of bursavich.dev/errcode: explicit-code errors, ErrorCoder      *)
(* composition (ErrorCoders), Compact's flatten-and-dedupe, and the domain *)
(* coders of the httperr, mysqlerr, grpcerr and googleapierr packages.     *)
(*                                                                         *)
(* A gRPC code is modelled by its name.  An error value is a record whose  *)
(* kind names its concrete type; a wrapping error holds the wrapped error  *)
(* in its err field, so the Unwrap chain is the nesting of the records.    *)
(* An ErrorCoder interface value is a record holding its dynamic type      *)
(* (dtype) and its value (val: the address for a pointer type); id names   *)
(* the instance as the caller constructed it.                              *)
(***************************************************************************)
EXTENDS Integers, Sequences, FiniteSets

(* ---------------------------------------------------------------- bounds *)

\* Largest number of nodes (leaf coders and nested ErrorCoders) of an input list.
MaxSize == 4

\* Largest repetition count handed to slices.Repeat.
MaxRepeat == 3

\* The number of nested compact frames the goroutine stack holds before the
\* runtime ends the process with "fatal error: stack overflow".  The runtime's
\* limit is far larger; every list of finite nesting here stays well below this one.
MaxStack == 8

(* ----------------------------------------------------------------- codes *)

OK == "OK"
Unknown == "Unknown"

\* google.golang.org/grpc/codes: the seventeen canonical codes.
Codes ==
  { "OK", "Canceled", "Unknown", "InvalidArgument", "DeadlineExceeded", "NotFound",
    "AlreadyExists", "PermissionDenied", "ResourceExhausted", "FailedPrecondition",
    "Aborted", "OutOfRange", "Unimplemented", "Internal", "Unavailable", "DataLoss",
    "Unauthenticated" }

\* codes.Code is a uint32: New also accepts a value outside the enumeration.
CodeValues == Codes \cup { "Code(17)" }

(* ---------------------------------------------------------------- errors *)

Nil == [kind |-> "nil"]

\* A leaf of an Unwrap chain: a sentinel or a library error with no Unwrap.
Sentinel(name) == [kind |-> "sentinel", name |-> name, msg |-> name]

ContextDeadlineExceeded == Sentinel("context deadline exceeded")
ContextCanceled == Sentinel("context canceled")
FsErrExist == Sentinel("file already exists")
FsErrNotExist == Sentinel("file does not exist")
FsErrPermission == Sentinel("permission denied")
FsErrInvalid == Sentinel("invalid argument")
ErrOther == Sentinel("boom")

\* *mysql.MySQLError{Number: n}
MySQLError(n) == [kind |-> "mysql", number |-> n, msg |-> "mysql error"]

\* An error with a GRPCStatus method; st is the status code, or "nil" for a nil *Status.
GRPCStatusError(st) == [kind |-> "grpc", status |-> st, msg |-> "rpc error"]

\* *googleapi.Error{Code: h}
GoogleAPIError(h) == [kind |-> "googleapi", httpCode |-> h, msg |-> "googleapi error"]

\* errcode.New
\* New as it would be if it refused to attach OK.
NewValidating(code, err) ==
  [kind |-> "coded", code |-> IF code = OK THEN Unknown ELSE code, err |-> err]

New(code, err) == [kind |-> "coded", code |-> code, err |-> err]

\* httperr.New
HTTPNew(code, err) == [kind |-> "http", httpCode |-> code, err |-> err]

IsWrapper(err) == err.kind \in {"coded", "http"}

\* (*codedError).Code
Code(ce) == ce.code

\* (*codedError).Unwrap, in errcode and in httperr
Unwrap(ce) == ce.err

\* (*codedError).Error, in errcode and in httperr: the wrapped error's message.
RECURSIVE Error(_)
Error(err) == IF IsWrapper(err) THEN Error(Unwrap(err)) ELSE err.msg

\* errors.As / errors.Is on a linear Unwrap chain: the first error of the chain
\* whose kind is in kinds (Nil when there is none).
RECURSIVE FirstInChain(_, _)
FirstInChain(err, kinds) ==
  IF err.kind \in kinds THEN err
  ELSE IF IsWrapper(err) THEN FirstInChain(Unwrap(err), kinds)
  ELSE Nil

\* errors.Is(err, target) for a sentinel target
RECURSIVE ErrorsIs(_, _)
ErrorsIs(err, target) ==
  IF err = target THEN TRUE
  ELSE IF IsWrapper(err) THEN ErrorsIs(Unwrap(err), target)
  ELSE FALSE

(* --------------------------------------------------------- domain coders *)

codedErrorCode(err) ==
  IF err = Nil THEN OK
  ELSE LET e == FirstInChain(err, {"coded"}) IN
       IF e # Nil THEN Code(e) ELSE Unknown

contextErrorCode(err) ==
  IF err = Nil THEN OK
  ELSE IF ErrorsIs(err, ContextDeadlineExceeded) THEN "DeadlineExceeded"
  ELSE IF ErrorsIs(err, ContextCanceled) THEN "Canceled"
  ELSE Unknown

fsErrorCode(err) ==
  IF err = Nil THEN OK
  ELSE IF ErrorsIs(err, FsErrExist) THEN "AlreadyExists"
  ELSE IF ErrorsIs(err, FsErrNotExist) THEN "NotFound"
  ELSE IF ErrorsIs(err, FsErrPermission) THEN "PermissionDenied"
  ELSE IF ErrorsIs(err, FsErrInvalid) THEN "InvalidArgument"
  ELSE Unknown

\* net/http status constants named by httperr.ToGRPC.
StatusBadRequest == 400
StatusUnauthorized == 401
StatusForbidden == 403
StatusNotFound == 404
StatusConflict == 409
StatusRequestedRangeNotSatisfiable == 416
StatusTooManyRequests == 429
StatusClientClosedRequest == 499
StatusInternalServerError == 500
StatusNotImplemented == 501
StatusBadGateway == 502
StatusServiceUnavailable == 503

\* httperr.ToGRPC
ToGRPC(httpCode) ==
  IF 200 <= httpCode /\ httpCode <= 299 THEN OK
  ELSE CASE httpCode = StatusBadRequest -> "InvalidArgument"
         [] httpCode = StatusUnauthorized -> "Unauthenticated"
         [] httpCode = StatusForbidden -> "PermissionDenied"
         [] httpCode = StatusNotFound -> "NotFound"
         [] httpCode = StatusConflict -> "Aborted"
         [] httpCode = StatusRequestedRangeNotSatisfiable -> "OutOfRange"
         [] httpCode = StatusTooManyRequests -> "ResourceExhausted"
         [] httpCode = StatusClientClosedRequest -> "Canceled"
         [] httpCode = StatusInternalServerError -> "Internal"
         [] httpCode = StatusNotImplemented -> "Unimplemented"
         [] httpCode = StatusServiceUnavailable -> "Unavailable"
         [] httpCode = StatusBadGateway -> "DeadlineExceeded"
         [] OTHER -> Unknown

\* httperr.ErrorCode
httpErrorCode(err) ==
  IF err = Nil THEN OK
  ELSE LET e == FirstInChain(err, {"http"}) IN
       IF e # Nil THEN ToGRPC(e.httpCode) ELSE Unknown

\* mysqlerr.mysqlCodes, as the set of its (number, code) entries.
mysqlCodes ==
  {
    <<1317, "Canceled">>, <<1149, "InvalidArgument">>, <<1205, "DeadlineExceeded">>,
    <<1008, "NotFound">>, <<1017, "NotFound">>, <<1031, "NotFound">>,
    <<1049, "NotFound">>, <<1051, "NotFound">>, <<1106, "NotFound">>,
    <<1109, "NotFound">>, <<1133, "NotFound">>, <<1146, "NotFound">>,
    <<1176, "NotFound">>, <<1305, "NotFound">>, <<1007, "AlreadyExists">>,
    <<1022, "AlreadyExists">>, <<1050, "AlreadyExists">>, <<1086, "AlreadyExists">>,
    <<1169, "AlreadyExists">>, <<1304, "AlreadyExists">>, <<1044, "PermissionDenied">>,
    <<1045, "PermissionDenied">>, <<1130, "PermissionDenied">>,
    <<1132, "PermissionDenied">>, <<1142, "PermissionDenied">>,
    <<1143, "PermissionDenied">>, <<1227, "PermissionDenied">>,
    <<1698, "PermissionDenied">>, <<3118, "PermissionDenied">>,
    <<3879, "PermissionDenied">>, <<3955, "PermissionDenied">>,
    <<10926, "PermissionDenied">>, <<10927, "PermissionDenied">>,
    <<11192, "PermissionDenied">>, <<13525, "PermissionDenied">>,
    <<1037, "ResourceExhausted">>, <<1038, "ResourceExhausted">>,
    <<1040, "ResourceExhausted">>, <<1041, "ResourceExhausted">>,
    <<1129, "ResourceExhausted">>, <<1197, "ResourceExhausted">>,
    <<1203, "ResourceExhausted">>, <<1206, "ResourceExhausted">>,
    <<1226, "ResourceExhausted">>, <<1461, "ResourceExhausted">>, <<1213, "Aborted">>,
    <<1148, "Unimplemented">>, <<1178, "Unimplemented">>, <<1235, "Unimplemented">>,
    <<1295, "Unimplemented">>, <<1053, "Unavailable">>, <<1077, "Unavailable">>,
    <<1079, "Unavailable">>, <<1080, "Unavailable">>, <<1194, "Unavailable">>,
    <<1195, "Unavailable">>, <<1131, "Unauthenticated">>
  }

\* mysqlerr.ErrorCode
mysqlErrorCode(err) ==
  IF err = Nil THEN OK
  ELSE LET e == FirstInChain(err, {"mysql"}) IN
       IF e # Nil /\ \E p \in mysqlCodes : p[1] = e.number
       THEN (CHOOSE p \in mysqlCodes : p[1] = e.number)[2]
       ELSE Unknown

\* grpcerr.ErrorCode
grpcErrorCode(err) ==
  IF err = Nil THEN OK
  ELSE LET gs == FirstInChain(err, {"grpc"}) IN
       IF gs = Nil THEN Unknown
       ELSE IF gs.status = "nil" THEN Unknown
       ELSE gs.status

\* googleapierr.googleAPIErrorCode
googleAPIErrorCode(err) ==
  IF err = Nil THEN OK
  ELSE LET ge == FirstInChain(err, {"googleapi"}) IN
       IF ge # Nil THEN ToGRPC(ge.httpCode) ELSE Unknown

(* ---------------------------------------------------------------- coders *)

\* A classification function supplied by a caller that forgets the nil check.
sloppyCode(err) ==
  IF ErrorsIs(err, FsErrExist) THEN "AlreadyExists" ELSE Unknown

\* The ErrorCode method of a caller's comparable struct type.
valueCoderCode(err) ==
  IF err = Nil THEN OK
  ELSE IF ErrorsIs(err, ErrOther) THEN "Internal"
  ELSE Unknown

\* A Go function value, called: fn names the function.
CallFn(fn, err) ==
  CASE fn = "codedErrorCode" -> codedErrorCode(err)
    [] fn = "contextErrorCode" -> contextErrorCode(err)
    [] fn = "fsErrorCode" -> fsErrorCode(err)
    [] fn = "httperr.ErrorCode" -> httpErrorCode(err)
    [] fn = "mysqlerr.ErrorCode" -> mysqlErrorCode(err)
    [] fn = "grpcerr.ErrorCode" -> grpcErrorCode(err)
    [] fn = "googleAPIErrorCode" -> googleAPIErrorCode(err)
    [] fn = "valueCoderCode" -> valueCoderCode(err)
    [] fn = "sloppyCode" -> sloppyCode(err)

\* FromFunc: a fresh *errorCoderFn, at address addr, holding fn.
FromFunc(fn, addr) ==
  [tag |-> "leaf", id |-> addr, dtype |-> "*errorCoderFn", val |-> addr, fn |-> fn]

\* (*errorCoderFn).ErrorCode
errorCoderFnErrorCode(e, err) == CallFn(e.fn, err)

\* A caller's coder of a comparable struct type: the interface holds the value itself.
ValueCoder(id, v) ==
  [tag |-> "leaf", id |-> id, dtype |-> "valueCoder", val |-> v, fn |-> "valueCoderCode"]

\* A caller's coder of a func type (type funcCoder func(error) codes.Code).
FuncCoder(id, fn) ==
  [tag |-> "leaf", id |-> id, dtype |-> "funcCoder", val |-> fn, fn |-> fn]

\* An ErrorCoders value held in an ErrorCoder interface.
ErrorCodersOf(elems) == [tag |-> "list", self |-> FALSE, elems |-> elems]

\* An ErrorCoders that contains itself: s := append(prefix, nil); s[len(prefix)] = s.
\* The interface held in the last slot is the slice header of the slice itself.
SelfContaining(prefix) == [tag |-> "list", self |-> TRUE, elems |-> prefix]

\* The elements a range over the ErrorCoders value v visits.
Elems(v) == IF v.self THEN Append(v.elems, v) ELSE v.elems

\* elem.(ErrorCoders)
IsErrorCoders(elem) == elem.tag = "list"

\* The package-level coders, each constructed once.
codedErrorCoder == FromFunc("codedErrorCode", 1)
contextErrorCoder == FromFunc("contextErrorCode", 2)
fsErrorCoder == FromFunc("fsErrorCode", 3)
httpErrorCoder == FromFunc("httperr.ErrorCode", 4)
mysqlErrorCoder == FromFunc("mysqlerr.ErrorCode", 5)
grpcErrorCoder == FromFunc("grpcerr.ErrorCode", 6)
googleapiErrorCoder ==
  ErrorCodersOf(<<grpcErrorCoder, httpErrorCoder, FromFunc("googleAPIErrorCode", 7)>>)

\* Coders a caller constructs.
contextErrorCoder2 == FromFunc("contextErrorCode", 8)
sloppyCoder == FromFunc("sloppyCode", 9)
valueCoderA == ValueCoder(10, "k")
valueCoderB == ValueCoder(11, "k")
funcCoder == FuncCoder(12, "sloppyCode")

\* The result of a member's answer: whether the range loop returns it.
ReturnsSkippingOK(c) == c # Unknown /\ c # OK
Returns(c) == c # Unknown

\* The guard of ErrorCoders.ErrorCode's first statement.
NilGuardMissing(err) == FALSE
NilGuard(err) == err = Nil

\* What ErrorCoders.ErrorCode returns after the loop.
FallthroughZero == OK
Fallthrough == Unknown

\* v.ErrorCode(err) for an interface value v; ErrorCoders.ErrorCode is the list case.
RECURSIVE ErrorCode(_, _)
RECURSIVE RangeFrom(_, _, _)
RangeFrom(s, err, i) ==
  IF i > Len(s) THEN Fallthrough
  ELSE LET c == ErrorCode(s[i], err) IN
       IF Returns(c) THEN c ELSE RangeFrom(s, err, i + 1)

ErrorCode(v, err) ==
  IF IsErrorCoders(v)
  THEN IF NilGuard(err) THEN OK ELSE RangeFrom(Elems(v), err, 1)
  ELSE IF v.dtype = "*errorCoderFn" THEN errorCoderFnErrorCode(v, err)
  ELSE CallFn(v.fn, err)

\* ErrorCoders.ErrorCode
ErrorCodersErrorCode(s, err) == ErrorCode(ErrorCodersOf(s), err)

(* --------------------------------------------------------------- Compact *)

\* Whether values of the dynamic type can be compared with ==.
Comparable(dtype) == dtype # "funcCoder"

\* == on two interface values as if it compared what the coders do.
InterfaceEqByBehaviour(a, b) == IF a.fn = b.fn THEN "true" ELSE "false"

\* == on two ErrorCoder interface values: "true", "false", or "panic" (the runtime
\* error of comparing two values of one uncomparable dynamic type).
InterfaceEq(a, b) ==
  IF a.dtype # b.dtype THEN "false"
  ELSE IF ~Comparable(a.dtype) THEN "panic"
  ELSE IF a.val = b.val THEN "true"
  ELSE "false"

\* slices.Contains(slice, elem): the first index decides.
RECURSIVE SlicesContains(_, _)
SlicesContains(slice, elem) ==
  IF slice = <<>> THEN "false"
  ELSE LET r == InterfaceEq(Head(slice), elem) IN
       IF r = "false" THEN SlicesContains(Tail(slice), elem) ELSE r

\* contains without its deferred recover: the panic reaches the caller.
containsNoRecover(slice, elem) ==
  LET r == SlicesContains(slice, elem) IN
  [panicked |-> r = "panic", found |-> r = "true"]

\* contains that never finds anything.
containsNever(slice, elem) == [panicked |-> FALSE, found |-> FALSE]

\* contains: the deferred recover turns a panic into the zero result, false.
contains(slice, elem) ==
  LET r == SlicesContains(slice, elem) IN
  [panicked |-> FALSE, found |-> IF r = "panic" THEN FALSE ELSE r = "true"]

\* slice = append(slice, elem), and the same with the element put in front.
PrependElem(slice, elem) == <<elem>> \o slice
AppendElem(slice, elem) == Append(slice, elem)

\* compact without the type switch: a nested ErrorCoders is appended as it is.
RECURSIVE compactShallow(_, _, _)
compactShallow(slice, elems, depth) ==
  IF elems = <<>> THEN [panicked |-> FALSE, fatal |-> FALSE, slice |-> slice]
  ELSE LET elem == Head(elems) IN
       IF IsErrorCoders(elem) \/ ~contains(slice, elem).found
       THEN compactShallow(AppendElem(slice, elem), Tail(elems), depth)
       ELSE compactShallow(slice, Tail(elems), depth)

\* compact, called with depth frames of compact already on the stack.  panicked
\* tells whether a panic left the function, fatal whether the recursion outgrew
\* the stack, which ends the process: no recover catches it.
RECURSIVE compact(_, _, _)
compact(slice, elems, depth) ==
  IF depth >= MaxStack THEN [panicked |-> FALSE, fatal |-> TRUE, slice |-> slice]
  ELSE IF elems = <<>> THEN [panicked |-> FALSE, fatal |-> FALSE, slice |-> slice]
  ELSE LET elem == Head(elems) IN
       IF IsErrorCoders(elem)
       THEN LET r == compact(slice, Elems(elem), depth + 1) IN
            IF r.panicked \/ r.fatal THEN r ELSE compact(r.slice, Tail(elems), depth)
       ELSE LET c == contains(slice, elem) IN
            IF c.panicked THEN [panicked |-> TRUE, fatal |-> FALSE, slice |-> slice]
            ELSE compact(IF c.found THEN slice ELSE AppendElem(slice, elem),
                         Tail(elems), depth)

\* Compact(coders...)
Compact(coders) == compact(<<>>, coders, 0)

\* How a call of Compact ends: it returns, a panic leaves it, or the process dies.
Outcome(r) == IF r.fatal THEN "fatal" ELSE IF r.panicked THEN "panicked" ELSE "returned"

\* slices.Repeat(s, count)
RECURSIVE Repeat(_, _)
Repeat(s, count) == IF count = 0 THEN <<>> ELSE s \o Repeat(s, count - 1)

(* ---------------------------------------------------------------- inputs *)

\* The leaf coders input lists are built from.
ListLeaves ==
  { codedErrorCoder, contextErrorCoder, contextErrorCoder2, valueCoderA, valueCoderB,
    funcCoder }

\* Every leaf coder a call is made on.
AllLeaves ==
  ListLeaves \cup { fsErrorCoder, httpErrorCoder, mysqlErrorCoder, grpcErrorCoder,
                    sloppyCoder }

\* Input lists by their number of nodes: a leaf is one node, a nested ErrorCoders
\* one node more than its own elements.
RECURSIVE ListsOfSize(_)
RECURSIVE ElemsOfSize(_)
ElemsOfSize(s) ==
  (IF s = 1 THEN ListLeaves ELSE {}) \cup { ErrorCodersOf(l) : l \in ListsOfSize(s - 1) }

ListsOfSize(k) ==
  IF k = 0 THEN { <<>> }
  ELSE UNION { { <<x>> \o r : x \in ElemsOfSize(s), r \in ListsOfSize(k - s) } : s \in 1..k }

InputLists == UNION { ListsOfSize(k) : k \in 0..MaxSize }

\* Input lists that reach an ErrorCoders containing itself.
SelfContainingLists ==
  LET short == UNION { ListsOfSize(k) : k \in 0..(MaxSize - 3) } IN
  { p \o <<SelfContaining(q)>> \o r :
      p \in short, q \in short, r \in { <<>>, <<codedErrorCoder>> } }

\* The argument lists of the Compact calls.
CompactInputs == InputLists \cup SelfContainingLists

\* The errors the list operations are called with.
ListErrors ==
  { Nil, ContextDeadlineExceeded, ErrOther, FsErrExist,
    New("Canceled", ContextDeadlineExceeded), New(OK, ErrOther),
    New(Unknown, ContextCanceled) }

\* The errors the single coders are called with.
Errors ==
  ListErrors \cup
  { ContextCanceled, FsErrNotExist, FsErrPermission, FsErrInvalid,
    MySQLError(1205), MySQLError(9999), GRPCStatusError("NotFound"),
    GRPCStatusError("nil"), GoogleAPIError(404), HTTPNew(404, ErrOther),
    HTTPNew(504, ContextCanceled), New("NotFound", HTTPNew(500, ErrOther)),
    HTTPNew(200, New("Internal", MySQLError(1213))) }

\* The HTTP status codes ToGRPC is called with.
HTTPCodes == (-1 .. 600) \cup { 999 }

(* ----------------------------------------------------------------- state *)

VARIABLES
  op,        \* the operation this run calls
  pc,        \* "call" before it, "range" inside ErrorCoders.ErrorCode's loop, then how
             \* it ended: "returned", "panicked" or "fatal"
  recv,      \* the receiver of the ErrorCode call
  args,      \* the arguments of the Compact call
  err,       \* the error argument
  i,         \* the range loop's index
  calls,     \* the indexes of the members invoked so far by the call
  code,      \* the code returned
  out,       \* what Compact returned
  count,     \* the repetition count of the Compact call's input
  spread,    \* whether the repeated list was passed spread as arguments
  httpCode,  \* ToGRPC's argument
  inCode,    \* New's code argument
  tagged     \* the error New returned

vars ==
  <<op, pc, recv, args, err, i, calls, code, out, count, spread, httpCode, inCode,
    tagged>>

NoCoder == [tag |-> "none"]
NoCode == "-"
NoResult == [panicked |-> FALSE, fatal |-> FALSE, slice |-> <<>>]

\* The receivers and errors of the ErrorCode calls.
ErrorCodeCalls ==
  (AllLeaves \X Errors)
    \cup ({ ErrorCodersOf(s) : s \in InputLists } \X ListErrors)
    \cup ({ googleapiErrorCoder } \X Errors)

\* A run is one call of one operation on inputs chosen here.
Init ==
  /\ pc = "call"
  /\ i = 0
  /\ calls = <<>>
  /\ code = NoCode
  /\ out = NoResult
  /\ tagged = Nil
  /\ \/ /\ op = "ErrorCode"
        /\ \E c \in ErrorCodeCalls : recv = c[1] /\ err = c[2]
        /\ args = <<>> /\ count = 0 /\ spread = FALSE /\ httpCode = 0 /\ inCode = NoCode
     \/ /\ op = "Compact"
        /\ args \in CompactInputs
        /\ recv = NoCoder /\ err = Nil
        /\ count = 0 /\ spread = FALSE /\ httpCode = 0 /\ inCode = NoCode
     \/ /\ op = "CompactRepeat"
        /\ args \in CompactInputs
        /\ count \in 1..MaxRepeat
        /\ spread \in BOOLEAN
        /\ recv = NoCoder /\ err = Nil /\ httpCode = 0 /\ inCode = NoCode
     \/ /\ op = "CompactErrorCode"
        /\ args \in CompactInputs
        /\ err \in ListErrors
        /\ recv = NoCoder /\ count = 0 /\ spread = FALSE /\ httpCode = 0 /\ inCode = NoCode
     \/ /\ op = "New"
        /\ inCode \in CodeValues
        /\ err \in Errors \ {Nil}
        /\ recv = NoCoder /\ args = <<>> /\ count = 0 /\ spread = FALSE /\ httpCode = 0
     \/ /\ op = "ToGRPC"
        /\ httpCode \in HTTPCodes
        /\ recv = NoCoder /\ args = <<>> /\ err = Nil
        /\ count = 0 /\ spread = FALSE /\ inCode = NoCode

\* recv.ErrorCode(err) on a single coder.
LeafCall ==
  /\ pc = "call" /\ op = "ErrorCode" /\ ~IsErrorCoders(recv)
  /\ pc' = "returned"
  /\ code' = ErrorCode(recv, err)
  /\ UNCHANGED <<op, recv, args, err, i, calls, out, count, spread, httpCode, inCode,
                 tagged>>

\* ErrorCoders.ErrorCode is entered: the nil check returns, or the loop starts.
Begin ==
  /\ pc = "call" /\ op = "ErrorCode" /\ IsErrorCoders(recv)
  /\ IF NilGuard(err)
     THEN pc' = "returned" /\ code' = OK /\ i' = i
     ELSE pc' = "range" /\ code' = code /\ i' = 1
  /\ UNCHANGED <<op, recv, args, err, calls, out, count, spread, httpCode, inCode,
                 tagged>>

\* One iteration of the range loop: the member is invoked, and its answer returned
\* unless it is Unknown.
Consult ==
  /\ pc = "range"
  /\ i <= Len(Elems(recv))
  /\ LET c == ErrorCode(Elems(recv)[i], err) IN
     /\ calls' = Append(calls, i)
     /\ IF Returns(c)
        THEN pc' = "returned" /\ code' = c /\ i' = i
        ELSE pc' = "range" /\ code' = code /\ i' = i + 1
  /\ UNCHANGED <<op, recv, args, err, out, count, spread, httpCode, inCode, tagged>>

\* The range loop is over.
Exhausted ==
  /\ pc = "range"
  /\ i > Len(Elems(recv))
  /\ pc' = "returned"
  /\ code' = Fallthrough
  /\ UNCHANGED <<op, recv, args, err, i, calls, out, count, spread, httpCode, inCode,
                 tagged>>

\* Compact(args...)
DoCompact ==
  /\ pc = "call" /\ op = "Compact"
  /\ pc' = Outcome(Compact(args))
  /\ out' = Compact(args)
  /\ UNCHANGED <<op, recv, args, err, i, calls, code, count, spread, httpCode, inCode,
                 tagged>>

\* Compact(slices.Repeat(args, count)...) or Compact(slices.Repeat(args, count))
DoCompactRepeat ==
  /\ pc = "call" /\ op = "CompactRepeat"
  /\ LET r == Compact(IF spread THEN Repeat(args, count)
                      ELSE <<ErrorCodersOf(Repeat(args, count))>>)
     IN pc' = Outcome(r) /\ out' = r
  /\ UNCHANGED <<op, recv, args, err, i, calls, code, count, spread, httpCode, inCode,
                 tagged>>

\* Compact(args...).ErrorCode(err)
DoCompactErrorCode ==
  /\ pc = "call" /\ op = "CompactErrorCode"
  /\ LET r == Compact(args) IN
     /\ pc' = Outcome(r)
     /\ out' = r
     /\ code' = IF Outcome(r) = "returned" THEN ErrorCodersErrorCode(r.slice, err)
                ELSE code
  /\ UNCHANGED <<op, recv, args, err, i, calls, count, spread, httpCode, inCode, tagged>>

\* New(inCode, err)
DoNew ==
  /\ pc = "call" /\ op = "New"
  /\ pc' = "returned"
  /\ tagged' = New(inCode, err)
  /\ UNCHANGED <<op, recv, args, err, i, calls, code, out, count, spread, httpCode,
                 inCode>>

\* ToGRPC(httpCode)
DoToGRPC ==
  /\ pc = "call" /\ op = "ToGRPC"
  /\ pc' = "returned"
  /\ code' = ToGRPC(httpCode)
  /\ UNCHANGED <<op, recv, args, err, i, calls, out, count, spread, httpCode, inCode,
                 tagged>>

Next ==
  \/ LeafCall
  \/ Begin
  \/ Consult
  \/ Exhausted
  \/ DoCompact
  \/ DoCompactRepeat
  \/ DoCompactErrorCode
  \/ DoNew
  \/ DoToGRPC

Spec == Init /\ [][Next]_vars

(* ---------------------------------------------------------------- claims *)

\* The leaf coders of a list, depth first and left to right.
RECURSIVE Flatten(_)
Flatten(l) ==
  IF l = <<>> THEN <<>>
  ELSE (IF IsErrorCoders(Head(l)) THEN Flatten(Elems(Head(l))) ELSE <<Head(l)>>)
       \o Flatten(Tail(l))

\* Two interface values hold the same dynamic type and the same value.
SameGoValue(a, b) == a.dtype = b.dtype /\ a.val = b.val

\* a == b is true: the same comparable dynamic type and the same value.
GoEqual(a, b) == SameGoValue(a, b) /\ a.dtype # "funcCoder"

\* The positions of seq holding x.
Positions(seq, x) == { j \in 1..Len(seq) : seq[j] = x }

Returned(o) == pc = "returned" /\ op = o

\* The coders the library itself hands out: a domain coder, an ErrorCoders, a
\* coder returned by FromFunc.
HandedOut(v) == IsErrorCoders(v) \/ v.dtype = "*errorCoderFn"

DomainFns ==
  { "codedErrorCode", "contextErrorCode", "fsErrorCode", "httperr.ErrorCode",
    "mysqlerr.ErrorCode", "grpcerr.ErrorCode", "googleAPIErrorCode" }

\* C1 as stated: every coder the library hands out (a domain coder, an ErrorCoders
\* of any length, a coder returned by FromFunc for any function) returns OK for
\* the nil error.
C1_NilIsOKForEveryCoder ==
  (Returned("ErrorCode") /\ err = Nil /\ HandedOut(recv)) => code = OK

\* C1 as amended: every domain coder and every ErrorCoders of any length, whatever
\* its members do, returns OK for the nil error; a coder returned by FromFunc(fn)
\* returns fn(nil), which is OK only when fn itself returns OK for nil.
C1_NilIsOKUnlessFnIsNot ==
  (Returned("ErrorCode") /\ err = Nil /\ HandedOut(recv)) =>
    /\ IsErrorCoders(recv) => code = OK
    /\ (~IsErrorCoders(recv) /\ recv.fn \in DomainFns) => code = OK
    /\ ~IsErrorCoders(recv) => code = CallFn(recv.fn, Nil)

\* An ErrorCoders holding a member that does not return OK for nil has returned OK
\* for the nil error.
C1_Witness ==
  /\ Returned("ErrorCode") /\ err = Nil /\ IsErrorCoders(recv)
  /\ \E j \in 1..Len(recv.elems) : ErrorCode(recv.elems[j], Nil) # OK
  /\ code = OK

\* C2: for a non-nil error an ErrorCoders returns the answer of its lowest-index
\* member whose answer is not Unknown (OK included), and Unknown when every member
\* answers Unknown or the list is empty.
C2_FirstAnswerWins ==
  (Returned("ErrorCode") /\ IsErrorCoders(recv) /\ err # Nil) =>
    LET s == recv.elems
        hits == { j \in 1..Len(s) : ErrorCode(s[j], err) # Unknown }
    IN IF hits = {} THEN code = Unknown
       ELSE \E j \in hits : (\A k \in hits : j <= k) /\ code = ErrorCode(s[j], err)

\* Two members classify the error differently and the earlier one, answering OK,
\* has decided.
C2_Witness ==
  /\ Returned("ErrorCode") /\ IsErrorCoders(recv) /\ err # Nil
  /\ \E j, k \in 1..Len(recv.elems) :
       /\ j < k
       /\ ErrorCode(recv.elems[j], err) = OK
       /\ ErrorCode(recv.elems[k], err) \notin {OK, Unknown}
       /\ \A h \in 1..(j - 1) : ErrorCode(recv.elems[h], err) = Unknown
  /\ code = OK

\* C3: ErrorCoders.ErrorCode invokes its members one at a time in list order, each
\* only after every earlier one answered Unknown; once a member answers anything
\* else the call returns and no later member is invoked; for the nil error no
\* member is invoked at all.
C3_ShortCircuit ==
  [][ /\ calls' # calls =>
           /\ pc = "range" /\ err # Nil
           /\ calls' = Append(calls, Len(calls) + 1)
           /\ \A j \in 1..Len(calls) : ErrorCode(recv.elems[calls[j]], err) = Unknown
      /\ (pc = "range" /\ pc' = "returned" /\ code' # Unknown) =>
           /\ calls' # <<>>
           /\ ErrorCode(recv.elems[calls'[Len(calls')]], err) = code'
      /\ pc = "returned" => calls' = calls
      /\ (pc' = "returned" /\ err' = Nil) => calls' = <<>>
    ]_vars

\* A call on a non-nil error has returned before the end of the list.
C3_Witness ==
  /\ Returned("ErrorCode") /\ IsErrorCoders(recv) /\ err # Nil
  /\ calls # <<>>
  /\ Len(calls) < Len(recv.elems)
  /\ code # Unknown

\* Every leaf of the list compares equal to itself.
SelfEqual(l) == \A j \in 1..Len(Flatten(l)) : GoEqual(Flatten(l)[j], Flatten(l)[j])

\* C4 as stated: Compact of a list repeated n >= 1 times, passed as one ErrorCoders
\* value or spread as arguments, is Compact of the list.
C4_RepeatCollapses == Returned("CompactRepeat") => out = Compact(args)

\* C4 as amended: the same, for a list whose leaf coders each compare equal to
\* themselves with == (as every pointer coder of the library does); a coder of an
\* uncomparable dynamic type is never found and is kept once per repetition.
C4_RepeatCollapsesComparable ==
  (Returned("CompactRepeat") /\ SelfEqual(args)) => out = Compact(args)

\* Three distinct comparable coders repeated three times collapse to the three.
C4_Witness ==
  /\ Returned("CompactRepeat") /\ SelfEqual(args)
  /\ count = 3
  /\ Len(args) = 3
  /\ out.slice = args
  /\ Len(Repeat(args, count)) = 9

\* C6 as stated: Compact drops a coder only when that very instance occurs earlier
\* in the flattened traversal; two distinct instances are both retained.
C6_DropsOnlySameInstance ==
  Returned("Compact") =>
    LET flat == Flatten(args) IN
    \A j \in 1..Len(flat) :
      (\A h \in 1..(j - 1) : flat[h].id # flat[j].id) =>
        \E k \in 1..Len(out.slice) : out.slice[k].id = flat[j].id

\* C6 as amended: Compact drops a coder only when a coder that is == to it (the
\* same comparable dynamic type and the same value) occurs earlier in the flattened
\* traversal.  For pointer coders, those of FromFunc among them, that is the same
\* instance, so two separately constructed FromFunc coders of one function are
\* both retained; two coders of a comparable value type that are equal in value
\* collapse into the first.
C6_DropsOnlyGoEqual ==
  Returned("Compact") =>
    LET flat == Flatten(args) IN
    /\ \A j \in 1..Len(flat) :
         (\A h \in 1..(j - 1) : ~GoEqual(flat[h], flat[j])) =>
           \E k \in 1..Len(out.slice) : out.slice[k] = flat[j]
    /\ \A j \in 1..Len(flat) :
         (flat[j].dtype = "*errorCoderFn"
            /\ \A h \in 1..(j - 1) : flat[h].id # flat[j].id) =>
           \E k \in 1..Len(out.slice) : out.slice[k].id = flat[j].id

\* Two FromFunc coders of the same function are both in the output.
C6_Witness ==
  /\ Returned("Compact")
  /\ \E j, k \in 1..Len(out.slice) :
       /\ j # k
       /\ out.slice[j].dtype = "*errorCoderFn" /\ out.slice[k].dtype = "*errorCoderFn"
       /\ out.slice[j].fn = out.slice[k].fn
       /\ out.slice[j].id # out.slice[k].id

\* Whether the list has finite nesting: it reaches no ErrorCoders containing itself.
RECURSIVE FiniteNesting(_)
FiniteNesting(l) ==
  \A j \in 1..Len(l) :
    IsErrorCoders(l[j]) => (~l[j].self /\ FiniteNesting(l[j].elems))

CompactOps == {"Compact", "CompactRepeat", "CompactErrorCode"}

\* What C7 says of a call that returned: the uncomparable coders are in the output
\* once per occurrence, and every leaf of the input is represented in it.
AppendedAndWentOn ==
  LET flat == Flatten(args) IN
  /\ \A j \in 1..Len(flat) :
       ~Comparable(flat[j].dtype) =>
         Cardinality(Positions(out.slice, flat[j]))
           = Cardinality(Positions(flat, flat[j]))
  /\ \A j \in 1..Len(flat) :
       \E k \in 1..Len(out.slice) : SameGoValue(out.slice[k], flat[j])

\* C7 as stated: Compact never fails, for any input list: no panic leaves it and it
\* does not crash the caller; a comparison that panics inside contains is recovered
\* there, contains answers false, the element is appended, and Compact goes on
\* with the remaining elements.
C7_CompactNeverFails ==
  (op \in CompactOps /\ pc # "call") =>
    /\ pc = "returned"
    /\ ~out.panicked
    /\ op # "CompactRepeat" => AppendedAndWentOn

\* C7 as amended: for any input list of finite nesting (one that reaches no
\* ErrorCoders containing itself), lists holding coders of uncomparable dynamic
\* type included, Compact returns and never panics: a comparison that panics
\* inside contains is recovered there, contains answers false, the element is
\* appended, and Compact goes on with the remaining elements.  On a list that
\* reaches an ErrorCoders containing itself Compact does not return: compact
\* recurses until the stack overflows, which ends the process.
C7_CompactNeverPanics ==
  (op \in CompactOps /\ pc # "call") =>
    IF FiniteNesting(args)
    THEN /\ pc = "returned"
         /\ ~out.panicked
         /\ op # "CompactRepeat" => AppendedAndWentOn
    ELSE pc = "fatal"

\* The same uncomparable coder came twice, a comparable coder after it, and the
\* output holds all three.
C7_Witness ==
  /\ Returned("Compact")
  /\ ~out.panicked
  /\ Len(out.slice) = 3
  /\ ~Comparable(out.slice[1].dtype)
  /\ out.slice[2] = out.slice[1]
  /\ Comparable(out.slice[3].dtype)

\* C8: for a list of deterministic coders, nested and repeated members allowed, and
\* any error, nil included, Compact(L).ErrorCode(e) is ErrorCoders(L).ErrorCode(e).
C8_CompactKeepsClassification ==
  Returned("CompactErrorCode") => code = ErrorCodersErrorCode(args, err)

\* A nested list with a repeated member was compacted, and a member other than the
\* first classified the error.
C8_Witness ==
  /\ Returned("CompactErrorCode")
  /\ \E j \in 1..Len(args) : IsErrorCoders(args[j])
  /\ Len(out.slice) < Len(Flatten(args))
  /\ Len(out.slice) >= 2
  /\ ErrorCode(out.slice[1], err) = Unknown
  /\ code \notin {OK, Unknown}

\* C9: for every code c and non-nil cause e, New(c, e) yields e from Unwrap, c from
\* Code and e's message from Error.
C9_NewRoundTrip ==
  Returned("New") =>
    /\ Unwrap(tagged) = err
    /\ Code(tagged) = inCode
    /\ Error(tagged) = Error(err)

\* OK was attached to a cause that itself wraps an error.
C9_Witness ==
  /\ Returned("New")
  /\ inCode = OK
  /\ IsWrapper(err)
  /\ Code(tagged) = OK

\* The elements of flat no earlier element of flat is == to, in order.
RECURSIVE FirstOccurrences(_, _)
FirstOccurrences(flat, j) ==
  IF j > Len(flat) THEN <<>>
  ELSE (IF \E h \in 1..(j - 1) : GoEqual(flat[h], flat[j]) THEN <<>> ELSE <<flat[j]>>)
       \o FirstOccurrences(flat, j + 1)

\* The first position of the instance with this id.
FirstPosition(flat, id) == CHOOSE j \in 1..Len(flat) :
  flat[j].id = id /\ \A h \in 1..(j - 1) : flat[h].id # id

\* C10 as stated: Compact's output holds no ErrorCoders, holds no instance at two
\* positions, holds exactly the leaf coders reachable from the input, in the order
\* of their first occurrence in the depth-first traversal; an empty input gives an
\* empty output.
C10_FlatDistinctOrdered ==
  Returned("Compact") =>
    LET flat == Flatten(args)
        o == out.slice
    IN /\ \A k \in 1..Len(o) : ~IsErrorCoders(o[k])
       /\ \A j, k \in 1..Len(o) : j # k => o[j].id # o[k].id
       /\ { o[k].id : k \in 1..Len(o) } = { flat[j].id : j \in 1..Len(flat) }
       /\ \A j, k \in 1..Len(o) :
            j < k => FirstPosition(flat, o[j].id) < FirstPosition(flat, o[k].id)
       /\ args = <<>> => o = <<>>

\* C10 as amended: Compact's output holds no ErrorCoders and no two elements that
\* are == to each other, and is exactly the sequence of the leaf coders of the
\* depth-first traversal that no earlier leaf is == to, in traversal order: a coder
\* of an uncomparable dynamic type is kept at every occurrence, coders of a
\* comparable value type that are equal in value count as one; an empty input gives
\* an empty output.
C10_FlatFirstOccurrences ==
  Returned("Compact") =>
    LET flat == Flatten(args)
        o == out.slice
    IN /\ \A k \in 1..Len(o) : ~IsErrorCoders(o[k])
       /\ \A j, k \in 1..Len(o) : j # k => ~GoEqual(o[j], o[k])
       /\ o = FirstOccurrences(flat, 1)
       /\ args = <<>> => o = <<>>

\* A nested list with a repeated coder was flattened and deduplicated.
C10_Witness ==
  /\ Returned("Compact")
  /\ \E j \in 1..Len(args) : IsErrorCoders(args[j]) /\ args[j].elems # <<>>
  /\ Len(out.slice) = 2
  /\ Len(Flatten(args)) = 3

\* The reference table of C5.
ReferenceToGRPC(h) ==
  IF h \in 200..299 THEN OK
  ELSE CASE h = 400 -> "InvalidArgument"
         [] h = 401 -> "Unauthenticated"
         [] h = 403 -> "PermissionDenied"
         [] h = 404 -> "NotFound"
         [] h = 409 -> "Aborted"
         [] h = 416 -> "OutOfRange"
         [] h = 429 -> "ResourceExhausted"
         [] h = 499 -> "Canceled"
         [] h = 500 -> "Internal"
         [] h = 501 -> "Unimplemented"
         [] h = 503 -> "Unavailable"
         [] h = 504 -> "DeadlineExceeded"
         [] OTHER -> Unknown

\* C5: ToGRPC maps HTTP status codes exactly as the reference table: 504 to
\* DeadlineExceeded among them, and every integer the table does not name to Unknown.
C5_ToGRPCTable == Returned("ToGRPC") => code = ReferenceToGRPC(httpCode)

====
